---- MODULE Spec2Model ----
(***************************************************************************)
(* Model of semchunk/boundaries.py: the offset splitter                    *)
(* (get_split_offsets), the boundary extractor (get_semantic_bounderies)   *)
(* and the boundary adapter (adapt_semantic_boundaries).                   *)
(*                                                                         *)
(* A string is a sequence of one-character strings; a Python list or tuple *)
(* is a sequence.  Offsets are 0-based as in Python: offset p of a text is *)
(* position p + 1 of the sequence.  A call ends in an outcome: "ok" with a *)
(* value, or the name of the exception it raised.                          *)
(***************************************************************************)
EXTENDS Integers, Sequences, FiniteSets, TLC

VARIABLES pc, op, args, result

vars == <<pc, op, args, result>>

\* ---------------------------------------------------------------- bounds

\* Longest text handed to a direct call of get_split_offsets.
MaxTextLen == 5
\* Most delimiters in a delimiter list of a direct call of get_split_offsets.
MaxDelims == 2
\* Longest delimiter of a direct call of get_split_offsets.
MaxDelimLen == 2

\* Most units (a letter, a blank or a two-character delimiter) a plain-text
\* document handed to the extractor is made of.
MaxDocLen == 2
\* Most granularity names in the ordered list handed to the extractor.
MaxTypes == 4
\* Largest offset of a hierarchy handed to the adapter, and largest value of
\* chunk_char_offset, chunk_len and added_chars_end_pos.
MaxPos == 2
\* Most levels of a hierarchy handed to the adapter.
MaxLevels == 2

\* --------------------------------------------------------------- helpers

SeqsFromTo(S, lo, hi) == UNION {[1..k -> S] : k \in lo..hi}

Ok(v) == [outcome |-> "ok", value |-> v]

Raise(e) == [outcome |-> e, value |-> <<>>]

None == [outcome |-> "none", value |-> <<>>]

\* ------------------------------------------------------ get_split_offsets

\* Whether the literal d (an alternative of split_pattern, escaped by
\* re.escape so that it stands for itself) matches text at 0-based offset p.
MatchesAt(text, p, d) ==
    /\ p + Len(d) <= Len(text)
    /\ SubSeq(text, p + 1, p + Len(d)) = d

\* The first alternative of split_pattern that matches at offset p; 0 if none.
FirstAlternative(text, p, delimiters) ==
    LET ks == {k \in 1..Len(delimiters) : MatchesAt(text, p, delimiters[k])}
    IN  IF ks = {} THEN 0 ELSE CHOOSE k \in ks : \A m \in ks : k <= m

\* re.split(split_pattern, text): the scan for the leftmost match resumes at
\* the end of the previous match; start is the offset at which the current
\* piece begins, p the offset the scan is at.
RECURSIVE SplitFrom(_, _, _, _)
SplitFrom(text, delimiters, start, p) ==
    IF p >= Len(text)
    THEN <<SubSeq(text, start + 1, Len(text))>>
    ELSE LET k == FirstAlternative(text, p, delimiters)
         IN  IF k = 0
             THEN SplitFrom(text, delimiters, start, p + 1)
             ELSE <<SubSeq(text, start + 1, p)>>
                  \o SplitFrom(text, delimiters, p + Len(delimiters[k]),
                               p + Len(delimiters[k]))

re_split(delimiters, text) == SplitFrom(text, delimiters, 0, 0)

\* A plausible slip: the consumed delimiter is not added to the offset.
RECURSIVE StartCharsNoDelimiter(_, _, _)
StartCharsNoDelimiter(pieces, start_char, delimiter_len) ==
    IF pieces = <<>>
    THEN <<>>
    ELSE <<start_char>>
         \o StartCharsNoDelimiter(Tail(pieces), start_char + Len(Head(pieces)),
                                  delimiter_len)

\* The loop of get_split_offsets over the pieces of the split.
RECURSIVE StartChars(_, _, _)
StartChars(pieces, start_char, delimiter_len) ==
    IF pieces = <<>>
    THEN <<>>
    ELSE <<start_char>>
         \o StartChars(Tail(pieces),
                       start_char + Len(Head(pieces)) + delimiter_len,
                       delimiter_len)

\* A plausible slip: the assertion on the delimiters' lengths is missing.
UniformLengthUnchecked(delimiters) == TRUE

\* assert all(len(d) == delimiter_len for d in delimiters[1:])
UniformLength(delimiters) ==
    \A k \in 2..Len(delimiters) : Len(delimiters[k]) = Len(delimiters[1])

get_split_offsets(text, delimiters) ==
    LET delimiter_len == Len(delimiters[1])
    IN  IF ~UniformLength(delimiters)
        THEN Raise("AssertionError")
        ELSE Ok(StartChars(re_split(delimiters, text), 0, delimiter_len))

\* ----------------------------------------------------------- splitter spec

\* Characters of the texts and delimiters of a direct splitter call.
SplitChars == {"a", "b"}

SplitTexts == SeqsFromTo(SplitChars, 0, MaxTextLen)

\* Non-empty delimiters, in non-empty lists, of equal or of different lengths.
SplitDelimiterLists ==
    SeqsFromTo(SeqsFromTo(SplitChars, 1, MaxDelimLen), 1, MaxDelims)

\* The sentence delimiters the extractor uses by default, and the text of the
\* documented example.
DefaultSentenceDelimiters == << <<".", " ">>, <<"?", " ">>, <<"!", " ">> >>

ExampleText == <<"a", ".", " ", "b", "?", " ", "c", "!", " ">>

SplitCalls == [text : SplitTexts, delimiters : SplitDelimiterLists]

\* The documented cases: the example, an empty text, delimiters 'ab' and 'c'.
SplitExamples ==
    {[text |-> ExampleText, delimiters |-> DefaultSentenceDelimiters],
     [text |-> <<>>, delimiters |-> DefaultSentenceDelimiters],
     [text |-> <<"x">>, delimiters |-> << <<"a", "b">>, <<"c">> >>]}

\* ------------------------------------------------- get_semantic_bounderies

ChunkTypes == {"paragraphs", "sentences", "subparts", "tokens"}

\* get_split_offsets(text, ['\n\n'])
ParagraphDelimiters == << <<"\n", "\n">> >>

\* get_split_offsets(text, [': ', '; ', ', '])
SubpartDelimiters == << <<":", " ">>, <<";", " ">>, <<",", " ">> >>

\* token_boundary_chars = [' ']
DefaultTokenDelimiters == << <<" ">> >>

Range(s) == {s[k] : k \in 1..Len(s)}

\* bisect_left(a, x, lo, hi): the binary search insort_left places x with.
RECURSIVE bisect_left(_, _, _, _)
bisect_left(a, x, lo, hi) ==
    IF lo < hi
    THEN LET mid == (lo + hi) \div 2
         IN  IF a[mid + 1] < x
             THEN bisect_left(a, x, mid + 1, hi)
             ELSE bisect_left(a, x, lo, mid)
    ELSE lo

\* A plausible slip: the offset is appended instead of placed in order.
insort_append(a, x) == Append(a, x)

\* insort_left(a, x): a.insert(bisect_left(a, x), x)
insort_left(a, x) ==
    LET at == bisect_left(a, x, 0, Len(a))
    IN  SubSeq(a, 1, at) \o <<x>> \o SubSeq(a, at + 1, Len(a))

\* The list objects of one call.  boundaries holds references: entry k of a
\* request of n names refers to object k, a list made for that entry
\* (paragraphs, subparts), to object n + 1, the one list sentence_start_chars,
\* or to object n + 2, the one list token_start_chars.
SentenceRef(n) == n + 1

TokenRef(n) == n + 2

\* The object boundaries[k - 1] refers to after the first loop.
BoundaryRef(types, k) ==
    IF types[k] = "sentences" THEN SentenceRef(Len(types))
    ELSE IF types[k] = "tokens" THEN TokenRef(Len(types))
    ELSE k

\* The lists as the first loop leaves them, before any insertion.  Every
\* "paragraphs" and every "subparts" entry gets a list object of its own
\* (a new call of get_split_offsets), holding the same offsets.
RawHeap(text, types, sentence_start_chars, token_start_chars) ==
    LET paragraph_start_chars == get_split_offsets(text, ParagraphDelimiters).value
        subpart_start_chars == get_split_offsets(text, SubpartDelimiters).value
    IN  [id \in 1..(Len(types) + 2) |->
            IF id = SentenceRef(Len(types)) THEN sentence_start_chars
            ELSE IF id = TokenRef(Len(types)) THEN token_start_chars
            ELSE IF types[id] = "paragraphs" THEN paragraph_start_chars
            ELSE IF types[id] = "subparts" THEN subpart_start_chars
            ELSE <<>>]

\* for b in boundaries[i]: if b not in boundaries[j]: insort_left(...)
\* The iteration reads the list object src by position while dst is changed.
RECURSIVE InsertAll(_, _, _, _)
InsertAll(heap, src, dst, at) ==
    IF at > Len(heap[src])
    THEN heap
    ELSE LET b == heap[src][at]
         IN  IF b \in Range(heap[dst])
             THEN InsertAll(heap, src, dst, at + 1)
             ELSE InsertAll([heap EXCEPT ![dst] = insort_left(@, b)],
                            src, dst, at + 1)

\* for j in range(i+1, len(boundaries)), at 1-based level indices
RECURSIVE InnerLoop(_, _, _, _)
InnerLoop(heap, types, i, j) ==
    IF j > Len(types)
    THEN heap
    ELSE InnerLoop(InsertAll(heap, BoundaryRef(types, i), BoundaryRef(types, j), 1),
                   types, i, j + 1)

\* for i in range(0, len(boundaries)-1), at 1-based level indices
RECURSIVE OuterLoop(_, _, _)
OuterLoop(heap, types, i) ==
    IF i > Len(types) - 1
    THEN heap
    ELSE OuterLoop(InnerLoop(heap, types, i, i + 1), types, i + 1)

\* A plausible slip: an unknown name is skipped instead of refused.
FirstLoopRaisesNever(types) == FALSE

\* The first loop ends in raise ValueError at the first unknown name.
FirstLoopRaises(types) == \E k \in 1..Len(types) : types[k] \notin ChunkTypes

\* get_semantic_bounderies(doc, ...) for a doc that is a str.
get_semantic_bounderies(text, types, sentence_boundary_chars, token_boundary_chars) ==
    LET sentences == get_split_offsets(text, sentence_boundary_chars)
        tokens == get_split_offsets(text, token_boundary_chars)
    IN  IF sentences.outcome # "ok" THEN sentences
        ELSE IF tokens.outcome # "ok" THEN tokens
        ELSE IF FirstLoopRaises(types) THEN Raise("ValueError")
        ELSE LET heap == OuterLoop(RawHeap(text, types, sentences.value,
                                           tokens.value), types, 1)
             IN  Ok([k \in 1..Len(types) |-> heap[BoundaryRef(types, k)]])

\* ------------------------------------------------ adapt_semantic_boundaries

\* A plausible slip: an offset behind the window is kept (no upper bound).
RECURSIVE AdaptLevelNoUpperBound(_, _, _, _)
AdaptLevelNoUpperBound(level, w, at, kept) ==
    IF at > Len(level)
    THEN kept
    ELSE LET b == level[at] - w.chunk_char_offset
             new_b == IF b >= w.added_chars_end_pos
                      THEN b + w.added_chars_len
                      ELSE b
         IN  IF new_b >= 0
             THEN AdaptLevelNoUpperBound(level, w, at + 1, Append(kept, new_b))
             ELSE AdaptLevelNoUpperBound(level, w, at + 1, kept)

\* A plausible slip: the window excludes its end (new_b < chunk_len).
RECURSIVE AdaptLevelExclusive(_, _, _, _)
AdaptLevelExclusive(level, w, at, kept) ==
    IF at > Len(level)
    THEN kept
    ELSE LET b == level[at] - w.chunk_char_offset
             new_b == IF b >= w.added_chars_end_pos
                      THEN b + w.added_chars_len
                      ELSE b
         IN  IF new_b >= 0 /\ new_b < w.chunk_len
             THEN AdaptLevelExclusive(level, w, at + 1, Append(kept, new_b))
             ELSE IF new_b > w.chunk_len
                  THEN kept
                  ELSE AdaptLevelExclusive(level, w, at + 1, kept)

\* A plausible slip: the scan of a level ends at any offset outside the
\* window, also at one before it.
RECURSIVE AdaptLevelBreakOutside(_, _, _, _)
AdaptLevelBreakOutside(level, w, at, kept) ==
    IF at > Len(level)
    THEN kept
    ELSE LET b == level[at] - w.chunk_char_offset
             new_b == IF b >= w.added_chars_end_pos
                      THEN b + w.added_chars_len
                      ELSE b
         IN  IF new_b >= 0 /\ new_b <= w.chunk_len
             THEN AdaptLevelBreakOutside(level, w, at + 1, Append(kept, new_b))
             ELSE kept

\* The inner loop over one level from position at on; w is the window
\* (chunk_char_offset, chunk_len, added_chars_len, added_chars_end_pos).
RECURSIVE AdaptLevel(_, _, _, _)
AdaptLevel(level, w, at, kept) ==
    IF at > Len(level)
    THEN kept
    ELSE LET b == level[at] - w.chunk_char_offset
             new_b == IF b >= w.added_chars_end_pos
                      THEN b + w.added_chars_len
                      ELSE b
         IN  IF new_b >= 0 /\ new_b <= w.chunk_len
             THEN AdaptLevel(level, w, at + 1, Append(kept, new_b))
             ELSE IF new_b > w.chunk_len
                  THEN kept
                  ELSE AdaptLevel(level, w, at + 1, kept)

\* A plausible slip: the start boundary is added to an empty level only.
AddStartIfEmpty(b) == IF Len(b) = 0 THEN <<0>> ELSE b

\* Add start boundary if not present.
AddStart(b) == IF Len(b) = 0 \/ b[1] # 0 THEN <<0>> \o b ELSE b

adapt_semantic_boundaries(boundaries, w) ==
    [i \in 1..Len(boundaries) |-> AddStart(AdaptLevel(boundaries[i], w, 1, <<>>))]

\* ---------------------------------------------------------- extractor spec

\* What the documents are made of: a letter, a blank, and the paragraph,
\* sentence and subpart delimiters of the default configuration.
DocUnits == {<<"a">>, <<" ">>, <<"\n", "\n">>, <<".", " ">>, <<",", " ">>}

RECURSIVE Flatten(_)
Flatten(units) ==
    IF units = <<>> THEN <<>> ELSE Head(units) \o Flatten(Tail(units))

DocsOf(n) == {Flatten(u) : u \in SeqsFromTo(DocUnits, 0, n)}

Docs == DocsOf(MaxDocLen)

\* The four known names and one the extractor does not know.
TypeNames == ChunkTypes \cup {"lines"}

Requests == SeqsFromTo(TypeNames, 0, MaxTypes)

KnownRequests == SeqsFromTo(ChunkTypes, 0, MaxTypes)

\* ordered_semantic_chunk_types=["paragraphs", "sentences", "subparts", "tokens"]
DefaultRequest == <<"paragraphs", "sentences", "subparts", "tokens">>

\* sentence_boundary_chars=['. ', '? ', '! '], token_boundary_chars=[' ']
DefaultDelimiterConfig ==
    [sentence_boundary_chars |-> DefaultSentenceDelimiters,
     token_boundary_chars |-> DefaultTokenDelimiters]

\* Other delimiters of one common length each: one-character sentence and
\* token delimiters, and two-character token delimiters.
OtherDelimiterConfigs ==
    {[sentence_boundary_chars |-> << <<".">>, <<",">> >>,
      token_boundary_chars |-> << <<" ">>, <<"\n">> >>],
     [sentence_boundary_chars |-> << <<" ">> >>,
      token_boundary_chars |-> << <<".", " ">>, <<"\n", "\n">> >>]}

\* Sentence or token delimiters of two lengths.
MixedDelimiterConfigs ==
    {[sentence_boundary_chars |-> << <<".", " ">>, <<".">> >>,
      token_boundary_chars |-> DefaultTokenDelimiters],
     [sentence_boundary_chars |-> DefaultSentenceDelimiters,
      token_boundary_chars |-> << <<" ">>, <<"\n", "\n">> >>]}

\* Every document with every request of known names, default delimiters.
ExtractCalls ==
    [text : Docs, types : KnownRequests, delimiters : {DefaultDelimiterConfig}]

\* Every document with the requests of at most two known names and with the
\* default request, other delimiters.
OtherDelimiterCalls ==
    [text : Docs, types : SeqsFromTo(ChunkTypes, 0, 2) \cup {DefaultRequest},
     delimiters : OtherDelimiterConfigs]

\* Every request, with or without an unknown name, on the shortest documents
\* (the first loop refuses an unknown name whatever the text is).
UnknownNameCalls ==
    [text : DocsOf(1), types : Requests, delimiters : {DefaultDelimiterConfig}]

\* Delimiters of two lengths (the splitter refuses them before the first loop).
MixedDelimiterCalls ==
    [text : Docs, types : {DefaultRequest, <<"paragraphs", "lines">>, <<>>},
     delimiters : MixedDelimiterConfigs]

\* ------------------------------------------------------------ adapter spec

\* A level with strictly increasing offsets is a set of offsets, in order.
RECURSIVE SortedSeq(_)
SortedSeq(S) ==
    IF S = {}
    THEN <<>>
    ELSE LET m == CHOOSE x \in S : \A y \in S : x <= y
         IN  <<m>> \o SortedSeq(S \ {m})

SortedLevels == {SortedSeq(S) : S \in SUBSET (0..MaxPos)}

\* Levels that are not strictly increasing.
UnsortedLevels == {<<1, 0>>, <<1, 1>>, <<2, 0, 1>>}

\* The hierarchy and the window of the documented example.
ExampleHierarchy == << <<0, 10>>, <<0, 3, 5, 10>> >>

ExampleWindow ==
    [chunk_char_offset |-> 3, chunk_len |-> 7,
     added_chars_len |-> 0, added_chars_end_pos |-> 0]

\* Windows as the callers promise them: chunk_len >= 0, added_chars_len >= 0.
Windows ==
    [chunk_char_offset : 0..MaxPos, chunk_len : 0..MaxPos,
     added_chars_len : {0, 1}, added_chars_end_pos : 0..MaxPos]

\* Windows that break the promise: a negative chunk_len or added_chars_len.
MalformedWindows ==
    [chunk_char_offset : 0..MaxPos, chunk_len : {-1},
     added_chars_len : {-1, 0, 1}, added_chars_end_pos : 0..MaxPos]
    \cup [chunk_char_offset : 0..MaxPos, chunk_len : 0..MaxPos,
          added_chars_len : {-1}, added_chars_end_pos : 0..MaxPos]

AdaptCalls ==
    [boundaries : SeqsFromTo(SortedLevels, 0, MaxLevels), window : Windows]

\* One-level hierarchies with a window that breaks the promise.
MalformedWindowCalls ==
    [boundaries : {<<l>> : l \in SortedLevels}, window : MalformedWindows]

\* Hierarchies with a level that is not strictly increasing.
UnsortedAdaptCalls ==
    [boundaries : {<<l>> : l \in UnsortedLevels},
     window : Windows \cup MalformedWindows]

\* The documented examples: the window above, and five characters inserted
\* at the start of a chunk.
AdaptExamples ==
    {[boundaries |-> ExampleHierarchy, window |-> ExampleWindow],
     [boundaries |-> ExampleHierarchy,
      window |-> [chunk_char_offset |-> 3, chunk_len |-> 12,
                  added_chars_len |-> 5, added_chars_end_pos |-> 0]]}

\* ------------------------------------------------------------------ calls
\* A call is chosen with its arguments (pc = "call"); the one action of its
\* specification runs the whole function and records how it ended.

SplitInit ==
    /\ pc = "call"
    /\ op = "get_split_offsets"
    /\ (args \in SplitCalls \/ args \in SplitExamples)
    /\ result = None

Split ==
    /\ pc = "call"
    /\ op = "get_split_offsets"
    /\ result' = get_split_offsets(args.text, args.delimiters)
    /\ pc' = "done"
    /\ UNCHANGED <<op, args>>

SpecSplit == SplitInit /\ [][Split]_vars

ExtractInit ==
    /\ pc = "call"
    /\ op = "get_semantic_bounderies"
    /\ (args \in ExtractCalls \/ args \in OtherDelimiterCalls
            \/ args \in UnknownNameCalls \/ args \in MixedDelimiterCalls)
    /\ result = None

Extract ==
    /\ pc = "call"
    /\ op = "get_semantic_bounderies"
    /\ result' = get_semantic_bounderies(args.text, args.types,
                                          args.delimiters.sentence_boundary_chars,
                                          args.delimiters.token_boundary_chars)
    /\ pc' = "done"
    /\ UNCHANGED <<op, args>>

SpecExtract == ExtractInit /\ [][Extract]_vars

AdaptInit ==
    /\ pc = "call"
    /\ op = "adapt_semantic_boundaries"
    /\ (args \in AdaptCalls \/ args \in MalformedWindowCalls
            \/ args \in UnsortedAdaptCalls \/ args \in AdaptExamples)
    /\ result = None

Adapt ==
    /\ pc = "call"
    /\ op = "adapt_semantic_boundaries"
    /\ result' = Ok(adapt_semantic_boundaries(args.boundaries, args.window))
    /\ pc' = "done"
    /\ UNCHANGED <<op, args>>

SpecAdapt == AdaptInit /\ [][Adapt]_vars

\* ------------------------------------------------------------ properties

\* All delimiters of a list have one length.
CommonLength(ds) == \A i, j \in 1..Len(ds) : Len(ds[i]) = Len(ds[j])

StrictlyIncreasing(l) == \A k \in 1..(Len(l) - 1) : l[k] < l[k + 1]

SplitDone == pc = "done" /\ op = "get_split_offsets"

ExtractDone == pc = "done" /\ op = "get_semantic_bounderies"

AdaptDone == pc = "done" /\ op = "adapt_semantic_boundaries"

\* Some delimiter of ds occurs in text at 0-based offset p.
DelimiterAt(text, p, ds) ==
    \E k \in 1..Len(ds) :
        /\ p >= 0
        /\ p + Len(ds[k]) <= Len(text)
        /\ \A c \in 1..Len(ds[k]) : text[p + c] = ds[k][c]

\* C4: for delimiters of one common length d >= 1 the splitter returns one
\* offset more than there are leftmost, non-overlapping delimiter
\* occurrences: the first offset is 0, every later offset lies d behind a
\* delimiter occurrence that is the first one at or after the previous
\* offset, and no delimiter occurs at or after the last offset.  The
\* documented example gives (0, 3, 6, 9) and an empty text gives (0).
C4_SplitterOffsets ==
    (SplitDone /\ CommonLength(args.delimiters)) =>
        /\ result.outcome = "ok"
        /\ LET offs == result.value
               d == Len(args.delimiters[1])
               n == Len(offs)
           IN  /\ n >= 1
               /\ offs[1] = 0
               /\ \A k \in 1..(n - 1) :
                     /\ offs[k + 1] - d >= offs[k]
                     /\ DelimiterAt(args.text, offs[k + 1] - d, args.delimiters)
                     /\ \A q \in offs[k]..(offs[k + 1] - d - 1) :
                           ~DelimiterAt(args.text, q, args.delimiters)
               /\ \A q \in offs[n]..Len(args.text) :
                     ~DelimiterAt(args.text, q, args.delimiters)
        /\ (args.text = ExampleText /\ args.delimiters = DefaultSentenceDelimiters)
              => result.value = <<0, 3, 6, 9>>
        /\ args.text = <<>> => result.value = <<0>>

\* A split of a text with two adjacent delimiters: a zero-length piece lies
\* between them and the offset still advances by the delimiter length.
C4_Witness ==
    /\ SplitDone
    /\ CommonLength(args.delimiters)
    /\ Len(args.delimiters) >= 2
    /\ Len(result.value) >= 3
    /\ \E k \in 1..(Len(result.value) - 1) :
          result.value[k + 1] = result.value[k] + Len(args.delimiters[1])

\* C6: the splitter ends in the assertion failure, with no offsets, exactly
\* when two of its delimiters differ in length.
C6_SplitterPrecondition ==
    SplitDone =>
        /\ result.outcome = "AssertionError" <=> ~CommonLength(args.delimiters)
        /\ result.outcome \in {"ok", "AssertionError"}
        /\ result.outcome = "AssertionError" => result.value = <<>>

\* The documented refusal: delimiters 'ab' and 'c'.
C6_Witness ==
    /\ SplitDone
    /\ args.delimiters = << <<"a", "b">>, <<"c">> >>
    /\ result.outcome = "AssertionError"

\* The offsets of one granularity as the first loop computes them.
RawOffsets(text, type, delimiters) ==
    IF type = "paragraphs" THEN get_split_offsets(text, ParagraphDelimiters).value
    ELSE IF type = "sentences"
         THEN get_split_offsets(text, delimiters.sentence_boundary_chars).value
    ELSE IF type = "subparts" THEN get_split_offsets(text, SubpartDelimiters).value
    ELSE get_split_offsets(text, delimiters.token_boundary_chars).value

\* C1: in every hierarchy the extractor returns, every offset of a level is
\* an offset of every later level, whatever the requested list is (repeated
\* names included).
C1_SubsetInvariant ==
    (ExtractDone /\ result.outcome = "ok") =>
        \A i, j \in 1..Len(result.value) :
            i < j => Range(result.value[i]) \subseteq Range(result.value[j])

\* C9: output level j of the extractor is the sorted, duplicate-free union
\* of the raw offsets of the requested levels 1..j, whatever the requested
\* list is (repeated names included).
C9_CoarseToFineOnly ==
    (ExtractDone /\ result.outcome = "ok") =>
        \A j \in 1..Len(result.value) :
            result.value[j] =
                SortedSeq(UNION {Range(RawOffsets(args.text, args.types[i],
                                                  args.delimiters)) : i \in 1..j})

\* C7: with delimiters of one common length the extractor ends in
\* ValueError, with no hierarchy, exactly when the requested list holds a
\* name that is none of the four known ones, at any position.
C7_UnknownGranularity ==
    (/\ ExtractDone
     /\ CommonLength(args.delimiters.sentence_boundary_chars)
     /\ CommonLength(args.delimiters.token_boundary_chars)) =>
        /\ result.outcome = "ValueError"
              <=> \E k \in 1..Len(args.types) :
                     args.types[k] \notin {"paragraphs", "sentences",
                                           "subparts", "tokens"}
        /\ result.outcome \in {"ok", "ValueError"}
        /\ result.outcome = "ValueError" => result.value = <<>>

\* The documented refusal: ['paragraphs', 'lines'], a known name first.
C7_Witness ==
    /\ ExtractDone
    /\ args.types = <<"paragraphs", "lines">>
    /\ CommonLength(args.delimiters.sentence_boundary_chars)
    /\ CommonLength(args.delimiters.token_boundary_chars)
    /\ result.outcome = "ValueError"

\* C8: every level the extractor returns starts with 0, is strictly
\* increasing (so non-negative and free of duplicates) and holds no offset
\* beyond the length of the text.
C8_WellFormedLevels ==
    (ExtractDone /\ result.outcome = "ok") =>
        \A j \in 1..Len(result.value) :
            LET l == result.value[j]
            IN  /\ Len(l) >= 1
                /\ l[1] = 0
                /\ StrictlyIncreasing(l)
                /\ \A k \in 1..Len(l) : l[k] >= 0 /\ l[k] <= Len(args.text)

\* A level into which the post-processing placed an offset between two of
\* its own raw offsets.
C8_Witness ==
    /\ ExtractDone
    /\ result.outcome = "ok"
    /\ \E j \in 1..Len(result.value) :
          LET raw == RawOffsets(args.text, args.types[j], args.delimiters)
              l == result.value[j]
          IN  /\ Len(raw) >= 2
              /\ \E k \in 2..(Len(l) - 1) :
                    /\ l[k] \notin Range(raw)
                    /\ l[k - 1] \in Range(raw)
                    /\ l[k + 1] \in Range(raw)

\* The window and the hierarchy are as the adapter's callers promise them:
\* strictly increasing levels, chunk_len >= 0, added_chars_len >= 0.
WellFormedAdaptCall ==
    /\ \A i \in 1..Len(args.boundaries) : StrictlyIncreasing(args.boundaries[i])
    /\ args.window.chunk_len >= 0
    /\ args.window.added_chars_len >= 0

\* The offset b in the coordinates of the window.
LocalOffset(b, w) ==
    IF b - w.chunk_char_offset >= w.added_chars_end_pos
    THEN b - w.chunk_char_offset + w.added_chars_len
    ELSE b - w.chunk_char_offset

\* C2: every level the adapter returns is non-empty and starts with 0,
\* whatever the hierarchy and the window are.
C2_ZeroAnchoring ==
    AdaptDone =>
        \A i \in 1..Len(result.value) :
            Len(result.value[i]) >= 1 /\ result.value[i][1] = 0

\* A hierarchy with an empty level and with a level all of whose offsets
\* fall outside the window: the anchor alone is returned for both.
C2_Witness ==
    /\ AdaptDone
    /\ \E i, j \in 1..Len(args.boundaries) :
          /\ args.boundaries[i] = <<>>
          /\ result.value[i] = <<0>>
          /\ Len(args.boundaries[j]) >= 2
          /\ \A k \in 1..Len(args.boundaries[j]) :
                \/ LocalOffset(args.boundaries[j][k], args.window) < 0
                \/ LocalOffset(args.boundaries[j][k], args.window)
                      > args.window.chunk_len
          /\ result.value[j] = <<0>>

\* C3: for a well-formed call every level the adapter returns is strictly
\* increasing and lies within 0..chunk_len.
C3_RangeAndOrder ==
    (AdaptDone /\ WellFormedAdaptCall) =>
        \A i \in 1..Len(result.value) :
            /\ StrictlyIncreasing(result.value[i])
            /\ \A k \in 1..Len(result.value[i]) :
                  /\ result.value[i][k] >= 0
                  /\ result.value[i][k] <= args.window.chunk_len

\* A well-formed call with inserted characters whose level keeps the offset
\* that lands on 0 and a shifted offset behind it.
C3_Witness ==
    /\ AdaptDone
    /\ WellFormedAdaptCall
    /\ args.window.added_chars_len > 0
    /\ args.window.added_chars_end_pos > 0
    /\ \E i \in 1..Len(result.value) :
          /\ Len(result.value[i]) >= 2
          /\ args.window.chunk_char_offset \in Range(args.boundaries[i])
          /\ Len(args.boundaries[i]) > Len(result.value[i])

\* The full scan of one level: every offset is mapped, those within the
\* window are kept in input order, 0 is put in front if it does not lead.
FullScan(level, w) ==
    LET local == [k \in 1..Len(level) |-> LocalOffset(level[k], w)]
        inside(x) == x >= 0 /\ x <= w.chunk_len
        kept == SelectSeq(local, inside)
    IN  IF kept = <<>> \/ kept[1] # 0 THEN <<0>> \o kept ELSE kept

\* C5: for a well-formed call the adapter returns as many levels as it was
\* given, each equal to the full scan of its input level (the early exit
\* drops nothing the full scan keeps); the documented example gives
\* ((0, 7), (0, 2, 7)).
C5_EqualsFullScan ==
    (AdaptDone /\ WellFormedAdaptCall) =>
        /\ Len(result.value) = Len(args.boundaries)
        /\ \A i \in 1..Len(args.boundaries) :
              result.value[i] = FullScan(args.boundaries[i], args.window)
        /\ (args.boundaries = ExampleHierarchy /\ args.window = ExampleWindow)
              => result.value = << <<0, 7>>, <<0, 2, 7>> >>
        /\ (/\ args.window.added_chars_len = 5
            /\ args.window.added_chars_end_pos = 0) =>
              \A i \in 1..Len(args.boundaries) :
                  \A k \in 1..Len(args.boundaries[i]) :
                      LET local == args.boundaries[i][k]
                                   - args.window.chunk_char_offset
                      IN  (local >= 0 /\ local + 5 <= args.window.chunk_len)
                              => local + 5 \in Range(result.value[i])

\* A well-formed call in which an offset before the window is skipped, the
\* next one lands on the end of the window and is kept, and the scan of the
\* level ends early at the third.
C5_Witness ==
    /\ AdaptDone
    /\ WellFormedAdaptCall
    /\ \E i \in 1..Len(args.boundaries) :
          LET l == args.boundaries[i]
          IN  /\ Len(l) >= 3
              /\ LocalOffset(l[1], args.window) < 0
              /\ LocalOffset(l[2], args.window) = args.window.chunk_len
              /\ LocalOffset(l[3], args.window) > args.window.chunk_len
              /\ result.value[i] = <<0, args.window.chunk_len>>

\* Every offset of a level of h is an offset of every later level of h.
Nested(h) ==
    \A i, j \in 1..Len(h) : i < j => Range(h[i]) \subseteq Range(h[j])

\* C10: for a well-formed call on a hierarchy whose levels are nested, the
\* levels the adapter returns are nested.
C10_AdapterKeepsSubsets ==
    (AdaptDone /\ WellFormedAdaptCall /\ Nested(args.boundaries)) =>
        Nested(result.value)

\* A nested two-level hierarchy whose finer level loses an offset before the
\* window and offsets behind it, and whose coarser level keeps one offset.
C10_Witness ==
    /\ AdaptDone
    /\ WellFormedAdaptCall
    /\ Nested(args.boundaries)
    /\ Len(args.boundaries) = 2
    /\ args.boundaries[1] # args.boundaries[2]
    /\ args.boundaries[1] # <<>>
    /\ Len(result.value[2]) < Len(args.boundaries[2])
    /\ Len(result.value[1]) = 2
    /\ Len(result.value[2]) >= 2
    /\ LocalOffset(args.boundaries[2][1], args.window) < 0

====
